---- MODULE Spec2Model ----
(***************************************************************************)
(* A model of budget.py: the Category ledger (get_balance, check_funds,    *)
(* deposit, withdraw, transfer) and the percentage computation of          *)
(* create_spend_chart.                                                     *)
(*                                                                         *)
(* Amounts are whole numbers (Python floats holding integers, on which     *)
(* addition and negation are exact within the ranges used here).  The      *)
(* chart's percentage is computed in IEEE-754 binary64, as the code does:  *)
(* every division and multiplication is rounded to 53 significant bits.    *)
(***************************************************************************)
EXTENDS Integers, Sequences, FiniteSets, TLC

VARIABLES
    ledger,     \* Category.ledger of every category: name -> sequence of LedgerElement
    hist,       \* the calls made so far, each with the ledgers it found and its result
    mode,       \* threaded runs: "serial" (one call at a time) or "interleaved"
    pc,         \* threaded runs: each thread's position inside its call
    targ,       \* threaded runs: each thread's call (op, self, destination, amount)
    tret,       \* threaded runs: each thread's return value
    chartIn,    \* create_spend_chart: the list of categories passed
    chartOut    \* create_spend_chart: its outcome

vars == <<ledger, hist, mode, pc, targ, tret, chartIn, chartOut>>

----------------------------------------------------------------------------
(* Bounds and input sets *)

\* the number of calls of one run
MaxOps == 3

\* the amounts a caller passes; the code validates no sign
Amounts == {-1, 0, 1, 2}

\* the Category objects of a run, identified by their names
Names == {"Food", "Auto"}

\* the descriptions a caller passes
Descriptions == {""}

----------------------------------------------------------------------------
(* class Category *)

\* Category.__init__: an empty ledger
EmptyLedger == <<>>

LedgerElement(amount, description) ==
    [amount |-> amount, description |-> description]

RECURSIVE get_balance(_)
\* the sum of the amounts of the ledger, in insertion order, from 0.0
get_balance(l) ==
    IF l = <<>> THEN 0
    ELSE get_balance(SubSeq(l, 1, Len(l) - 1)) + l[Len(l)].amount

\* check_funds with the comparison turned round
check_funds_flipped(l, amount) == get_balance(l) <= amount

\* check_funds refusing an amount equal to the balance
check_funds_strict(l, amount) == get_balance(l) > amount

\* check_funds that never refuses
check_funds_skipped(l, amount) == TRUE

check_funds(l, amount) == get_balance(l) >= amount

deposit(l, amount, description) ==
    Append(l, LedgerElement(amount, description))

\* a withdraw entry whose amount keeps its sign
WithdrawEntry_unsigned(amount, description) == LedgerElement(amount, description)

\* the entry a successful withdraw appends
WithdrawEntry(amount, description) == LedgerElement(amount * (-1), description)

withdraw(l, amount, description) ==
    IF check_funds(l, amount)
    THEN [ledger |-> Append(l, WithdrawEntry(amount, description)), ret |-> "True"]
    ELSE [ledger |-> l, ret |-> "False"]

\* transfer without its own funds check: the deposit follows a failed withdraw
transfer_unchecked(L, self, amount, destination) ==
    LET w  == withdraw(L[self], amount, "Transfer to " \o destination)
        L1 == [L EXCEPT ![self] = w.ledger]
        L2 == [L1 EXCEPT ![destination] =
                   deposit(L1[destination], amount, "Transfer from " \o self)]
    IN  [ledgers |-> L2, ret |-> w.ret]

\* transfer with the two names in each other's description
transfer_swapped_names(L, self, amount, destination) ==
    IF check_funds(L[self], amount)
    THEN LET w  == withdraw(L[self], amount, "Transfer to " \o self)
             L1 == [L EXCEPT ![self] = w.ledger]
             L2 == [L1 EXCEPT ![destination] =
                        deposit(L1[destination], amount, "Transfer from " \o destination)]
         IN  [ledgers |-> L2, ret |-> "True"]
    ELSE [ledgers |-> L, ret |-> "False"]

\* self.transfer(amount, destination) on the ledgers L of all categories;
\* destination may be self: the deposit then lands on the ledger the
\* withdraw has just extended
transfer(L, self, amount, destination) ==
    IF check_funds(L[self], amount)
    THEN LET w  == withdraw(L[self], amount, "Transfer to " \o destination)
             L1 == [L EXCEPT ![self] = w.ledger]
             L2 == [L1 EXCEPT ![destination] =
                        deposit(L1[destination], amount, "Transfer from " \o self)]
         IN  [ledgers |-> L2, ret |-> "True"]
    ELSE [ledgers |-> L, ret |-> "False"]

----------------------------------------------------------------------------------------------------------------------------------------
(* Python float arithmetic (IEEE-754 binary64, round to nearest, ties to   *)
(* even) on bit sequences, most significant bit first.  A float is zero,   *)
(* [m |-> <<>>, e |-> 0], or [m |-> 53 bits starting with 1, e |-> the     *)
(* exponent of the last bit]: its value is m * 2^e.  Multiplication and    *)
(* division by a small whole number go through the digits 16 at a time.    *)

\* the significand of a Python float
MantissaBits == 53

Zeros(n) == IF n <= 0 THEN <<>> ELSE [i \in 1..n |-> 0]

\* the k digits of q < 2^k
Digits(q, k) == [j \in 1..k |-> (q \div 2^(k - j)) % 2]

StripZeros(b) ==
    IF \A i \in 1..Len(b) : b[i] = 0 THEN <<>>
    ELSE LET f == CHOOSE i \in 1..Len(b) : b[i] = 1 /\ \A j \in 1..(i - 1) : b[j] = 0
         IN  SubSeq(b, f, Len(b))

\* the binary digits of a natural number below 2^30; none for 0
BitsOf(n) == StripZeros(Digits(n, 30))

\* zeros before b that make its length a multiple of k
PadLeft(b, k) == Zeros((k - (Len(b) % k)) % k) \o b

\* the number the four digits of b from the i-th on spell
Nibble(b, i) == 8 * b[i] + 4 * b[i + 1] + 2 * b[i + 2] + b[i + 3]

\* the number a sequence of at most 16 digits spells
ValOf(b) ==
    LET w == PadLeft(b, 16)
    IN  IF b = <<>> THEN 0
        ELSE 4096 * Nibble(w, 1) + 256 * Nibble(w, 5) + 16 * Nibble(w, 9) + Nibble(w, 13)

\* b + 1; one digit longer when b is all ones
Inc(b) ==
    IF \A i \in 1..Len(b) : b[i] = 1 THEN <<1>> \o Zeros(Len(b))
    ELSE LET p == CHOOSE i \in 1..Len(b) : b[i] = 0 /\ \A j \in (i + 1)..Len(b) : b[j] = 1
         IN  [i \in 1..Len(b) |-> IF i < p THEN b[i] ELSE IF i = p THEN 1 ELSE 0]

FloatZero == [m |-> <<>>, e |-> 0]

\* the float nearest to (b + f) * 2^e, where 0 <= f < 1 and sticky says f > 0
Round53(bits, e, sticky) ==
    LET b == StripZeros(bits)
        n == Len(b)
    IN  IF n = 0 THEN FloatZero
        ELSE IF n <= MantissaBits
        THEN [m |-> b \o Zeros(MantissaBits - n), e |-> e - (MantissaBits - n)]
        ELSE LET kept  == SubSeq(b, 1, MantissaBits)
                 guard == b[MantissaBits + 1]
                 st    == sticky \/ \E i \in (MantissaBits + 2)..n : b[i] = 1
                 up    == guard = 1 /\ (st \/ kept[MantissaBits] = 1)
                 r     == IF up THEN Inc(kept) ELSE kept
             IN  IF Len(r) > MantissaBits
                 THEN [m |-> SubSeq(r, 1, MantissaBits), e |-> e + (n - MantissaBits) + 1]
                 ELSE [m |-> r, e |-> e + (n - MantissaBits)]

\* float(n) of a natural number
FromInt(n) == Round53(BitsOf(n), 0, FALSE)

RECURSIVE MulDigits(_, _, _)
\* b * a, k digits of b at a time: the digits of the product below the
\* length of b, and the carry out of them
MulDigits(b, a, k) ==
    IF b = <<>> THEN [digits |-> <<>>, carry |-> 0]
    ELSE LET rest == MulDigits(SubSeq(b, k + 1, Len(b)), a, k)
             t    == ValOf(SubSeq(b, 1, k)) * a + rest.carry
         IN  [digits |-> Digits(t % 2^k, k) \o rest.digits,
              carry |-> t \div 2^k]

\* x * float(a), a < 2^15 a natural number
FloatMul(x, a) ==
    CHOOSE y \in { Round53(BitsOf(p.carry) \o p.digits, x.e, FALSE) :
                     p \in { MulDigits(PadLeft(x.m, 16), a, 16) } } : TRUE

RECURSIVE DivDigits(_, _, _, _)
\* long division of the digits b by d with remainder r so far, k digits at a time
DivDigits(b, d, r, k) ==
    IF b = <<>> THEN [q |-> <<>>, r |-> r]
    ELSE LET t    == r * 2^k + ValOf(SubSeq(b, 1, k))
             rest == DivDigits(SubSeq(b, k + 1, Len(b)), d, t % d, k)
         IN  [q |-> Digits(t \div d, k) \o rest.q, r |-> rest.r]

\* x / float(d), 0 < d < 2^15 a natural number: the quotient
\* is carried far enough below the 53rd digit for the rounding to be exact
FloatDiv(x, d) ==
    LET ext == Len(BitsOf(d)) + 2
        pad == ext + ((16 - ((Len(x.m) + ext) % 16)) % 16)
    IN  IF x.m = <<>> THEN FloatZero
        ELSE CHOOSE y \in { Round53(qr.q, x.e - pad, qr.r # 0) :
                              qr \in { DivDigits(x.m \o Zeros(pad), d, 0, 16) } } : TRUE

\* math.floor(x), x >= 0
FloatFloor(x) ==
    IF x.m = <<>> THEN 0
    ELSE IF x.e >= 0 THEN ValOf(x.m) * 2^(x.e)
    ELSE IF -x.e >= MantissaBits THEN 0
    ELSE ValOf(SubSeq(x.m, 1, MantissaBits + x.e))

----------------
(* create_spend_chart *)

RECURSIVE withdraw_sum_all(_)
\* withdraw_sum without the test for a negative amount
withdraw_sum_all(l) ==
    IF l = <<>> THEN 0
    ELSE withdraw_sum_all(SubSeq(l, 1, Len(l) - 1)) + l[Len(l)].amount * (-1)

RECURSIVE withdraw_sum(_)
\* the total of the negative entries of a ledger, sign flipped
withdraw_sum(l) ==
    IF l = <<>> THEN 0
    ELSE withdraw_sum(SubSeq(l, 1, Len(l) - 1))
             + (IF l[Len(l)].amount < 0 THEN l[Len(l)].amount * (-1) ELSE 0)

\* withdraws: one {name, amount} per category, in input order
Withdraws(categories) ==
    [i \in 1..Len(categories) |->
        [name |-> categories[i].name, amount |-> withdraw_sum(categories[i].ledger)]]

RECURSIVE SumAmounts(_)
SumAmounts(ws) ==
    IF ws = <<>> THEN 0
    ELSE SumAmounts(SubSeq(ws, 1, Len(ws) - 1)) + ws[Len(ws)].amount

overall_withdraw(categories) == SumAmounts(Withdraws(categories))

\* float(100), the 100.0 of the percentage
Hundred == FromInt(100)

\* a percentage that is 0 when nothing was withdrawn at all
withdraw_percent_guarded(overall, amount) ==
    [ok |-> TRUE,
     value |-> IF overall = 0 THEN 0 ELSE ((10 * amount) \div overall) * 10]

\* math.floor(100.0 / overall_withdraw * amount / 10.0) * 10, evaluated left
\* to right, each operation rounded; Python raises ZeroDivisionError on
\* 100.0 / 0
withdraw_percent(overall, amount) ==
    IF overall = 0 THEN [ok |-> FALSE, value |-> 0]
    ELSE [ok |-> TRUE,
          value |-> CHOOSE p \in
                      { FloatFloor(z) * 10 : z \in
                          { FloatDiv(y, 10) : y \in
                              { FloatMul(x, amount) : x \in
                                  { FloatDiv(Hundred, overall) } } } } : TRUE]

y_axis == <<100, 90, 80, 70, 60, 50, 40, 30, 20, 10, 0>>

\* the outcome of create_spend_chart(categories): the exception raised by the
\* first percentage, or the chart returned (its x_axis and, per row of
\* y_axis, which categories get a filled glyph)
create_spend_chart(categories) ==
    LET ws      == Withdraws(categories)
        overall == SumAmounts(ws)
        pct     == [i \in 1..Len(ws) |-> withdraw_percent(overall, ws[i].amount)]
        x_axis  == [i \in 1..Len(ws) |-> [name |-> ws[i].name, value |-> pct[i].value]]
    IN  IF \E i \in 1..Len(ws) : ~pct[i].ok
        THEN [kind |-> "raised", error |-> "ZeroDivisionError"]
        ELSE [kind |-> "returned",
              x_axis |-> x_axis,
              bars |-> [r \in 1..Len(y_axis) |->
                           [i \in 1..Len(x_axis) |-> x_axis[i].value >= y_axis[r]]]]

----------------------------------------------------------------------------
(* Sequential callers *)

Call(op, self, destination, amount, description, ret) ==
    [op |-> op, self |-> self, destination |-> destination, amount |-> amount,
     description |-> description, ret |-> ret, pre |-> ledger]

Threads == {1, 2}

NoCall == [op |-> "none", self |-> "", destination |-> "", amount |-> 0]

NoThreads ==
    /\ mode = "none"
    /\ pc = [t \in Threads |-> "idle"]
    /\ targ = [t \in Threads |-> NoCall]
    /\ tret = [t \in Threads |-> "None"]

NotCharted == [kind |-> "none"]

NoChart ==
    /\ chartIn = <<>> /\ chartOut = NotCharted

Init ==
    /\ ledger = [c \in Names |-> EmptyLedger]
    /\ hist = <<>>
    /\ NoThreads
    /\ NoChart

Deposit(c, amount, description) ==
    /\ Len(hist) < MaxOps
    /\ ledger' = [ledger EXCEPT ![c] = deposit(ledger[c], amount, description)]
    /\ hist' = Append(hist, Call("deposit", c, c, amount, description, "None"))
    /\ UNCHANGED <<mode, pc, targ, tret, chartIn, chartOut>>

Withdraw(c, amount, description) ==
    /\ Len(hist) < MaxOps
    /\ LET w == withdraw(ledger[c], amount, description)
       IN  /\ ledger' = [ledger EXCEPT ![c] = w.ledger]
           /\ hist' = Append(hist, Call("withdraw", c, c, amount, description, w.ret))
    /\ UNCHANGED <<mode, pc, targ, tret, chartIn, chartOut>>

Transfer(c, amount, d) ==
    /\ Len(hist) < MaxOps
    /\ LET t == transfer(ledger, c, amount, d)
       IN  /\ ledger' = t.ledgers
           /\ hist' = Append(hist, Call("transfer", c, d, amount, "", t.ret))
    /\ UNCHANGED <<mode, pc, targ, tret, chartIn, chartOut>>

Next ==
    \/ \E c \in Names, a \in Amounts, s \in Descriptions : Deposit(c, a, s)
    \/ \E c \in Names, a \in Amounts, s \in Descriptions : Withdraw(c, a, s)
    \/ \E c \in Names, a \in Amounts, d \in Names : Transfer(c, a, d)

Spec == Init /\ [][Next]_vars

----------------------------------------------------------------------------
(* create_spend_chart as a pure function of the categories passed *)

\* the longest list of categories passed
MaxCats == 3

\* the ledger a fresh category has after the calls of a script, each call
\* <<"deposit", amount>> or <<"withdraw", amount>>
RECURSIVE LedgerAfter(_)
LedgerAfter(script) ==
    IF script = <<>> THEN EmptyLedger
    ELSE LET l == LedgerAfter(SubSeq(script, 1, Len(script) - 1))
             c == script[Len(script)]
         IN  IF c[1] = "deposit" THEN deposit(l, c[2], "")
             ELSE withdraw(l, c[2], "").ledger

ChartScripts ==
    { <<>>,
      << <<"deposit", 100>> >>,
      << <<"deposit", 100>>, <<"withdraw", 20>> >>,
      << <<"deposit", 100>>, <<"withdraw", 60>> >>,
      << <<"deposit", 100>>, <<"withdraw", 97>> >>,
      << <<"deposit", 100>>, <<"withdraw", 20>>, <<"withdraw", 30>> >> }

ChartLedgers == { LedgerAfter(s) : s \in ChartScripts }

ChartName(i) ==
    CASE i = 1 -> "Food" [] i = 2 -> "Clothing" [] i = 3 -> "Auto" [] OTHER -> "Rent"

ChartInputs ==
    UNION { { [i \in 1..n |-> [name |-> ChartName(i), ledger |-> f[i]]] :
                f \in [1..n -> ChartLedgers] } : n \in 0..MaxCats }

InitChart ==
    /\ ledger = [c \in Names |-> EmptyLedger]
    /\ hist = <<>>
    /\ NoThreads
    /\ chartIn \in ChartInputs
    /\ chartOut = NotCharted

Chart ==
    /\ chartOut = NotCharted
    /\ chartOut' = create_spend_chart(chartIn)
    /\ UNCHANGED <<ledger, hist, mode, pc, targ, tret, chartIn>>

NextChart == Chart

SpecChart == InitChart /\ [][NextChart]_vars

----------------------------------------------------------------------------
(* Two threads calling withdraw or transfer, one step per check_funds and  *)
(* per ledger append.  In mode "serial" a call starts only when no other   *)
(* call is under way; in mode "interleaved" the steps of the two calls mix *)
(* freely: the code takes no lock.                                         *)

\* what each category holds before the threads start
InitialDeposits == {0, 1, 2}

\* the amounts the threads pass: none is negative
ThreadAmounts == {0, 1, 2}

InitThreads ==
    /\ \E b \in [Names -> InitialDeposits] :
           ledger = [c \in Names |-> deposit(EmptyLedger, b[c], "initial")]
    /\ hist = <<>>
    /\ mode \in {"serial", "interleaved"}
    /\ pc = [t \in Threads |-> "idle"]
    /\ targ = [t \in Threads |-> NoCall]
    /\ tret = [t \in Threads |-> "None"]
    /\ NoChart

Running(t) == pc[t] \notin {"idle", "done"}

\* thread t enters withdraw or transfer
TCall(t, op, c, a, d) ==
    /\ pc[t] = "idle"
    /\ mode = "serial" => \A u \in Threads \ {t} : ~Running(u)
    /\ targ' = [targ EXCEPT ![t] =
                   [op |-> op, self |-> c, destination |-> d, amount |-> a]]
    /\ pc' = [pc EXCEPT ![t] = IF op = "transfer" THEN "t_check" ELSE "w_check"]
    /\ UNCHANGED <<ledger, hist, mode, tret, chartIn, chartOut>>

\* transfer: if self.check_funds(amount)
TCheck(t) ==
    /\ pc[t] = "t_check"
    /\ IF check_funds(ledger[targ[t].self], targ[t].amount)
       THEN pc' = [pc EXCEPT ![t] = "w_check"] /\ tret' = tret
       ELSE pc' = [pc EXCEPT ![t] = "done"] /\ tret' = [tret EXCEPT ![t] = "False"]
    /\ UNCHANGED <<ledger, hist, mode, targ, chartIn, chartOut>>

\* where a withdraw returns to: its caller, or transfer's deposit (transfer
\* ignores what withdraw returns)
AfterWithdraw(t, ret) ==
    IF targ[t].op = "transfer"
    THEN pc' = [pc EXCEPT ![t] = "t_deposit"] /\ tret' = tret
    ELSE pc' = [pc EXCEPT ![t] = "done"] /\ tret' = [tret EXCEPT ![t] = ret]

\* withdraw: if self.check_funds(amount)
WCheck(t) ==
    /\ pc[t] = "w_check"
    /\ IF check_funds(ledger[targ[t].self], targ[t].amount)
       THEN pc' = [pc EXCEPT ![t] = "w_append"] /\ tret' = tret
       ELSE AfterWithdraw(t, "False")
    /\ UNCHANGED <<ledger, hist, mode, targ, chartIn, chartOut>>

\* withdraw: self.ledger.append(...); return True
WAppend(t) ==
    /\ pc[t] = "w_append"
    /\ ledger' = [ledger EXCEPT ![targ[t].self] =
           Append(@, WithdrawEntry(targ[t].amount,
               IF targ[t].op = "transfer"
               THEN "Transfer to " \o targ[t].destination ELSE ""))]
    /\ AfterWithdraw(t, "True")
    /\ UNCHANGED <<hist, mode, targ, chartIn, chartOut>>

\* transfer: destination.deposit(...); return True
TDeposit(t) ==
    /\ pc[t] = "t_deposit"
    /\ ledger' = [ledger EXCEPT ![targ[t].destination] =
           deposit(@, targ[t].amount, "Transfer from " \o targ[t].self)]
    /\ pc' = [pc EXCEPT ![t] = "done"]
    /\ tret' = [tret EXCEPT ![t] = "True"]
    /\ UNCHANGED <<hist, mode, targ, chartIn, chartOut>>

NextThreads ==
    \/ \E t \in Threads, c \in Names, a \in ThreadAmounts :
           TCall(t, "withdraw", c, a, c)
    \/ \E t \in Threads, c \in Names, a \in ThreadAmounts, d \in Names :
           TCall(t, "transfer", c, a, d)
    \/ \E t \in Threads : TCheck(t)
    \/ \E t \in Threads : WCheck(t)
    \/ \E t \in Threads : WAppend(t)
    \/ \E t \in Threads : TDeposit(t)

SpecThreads == InitThreads /\ [][NextThreads]_vars

----------------------------------------------------------------------------
(* The callers' view of a run: what the calls of hist say was applied *)

Last == hist[Len(hist)]

Prev == hist[Len(hist) - 1]

\* what call h contributes to category c: +amount for a deposit and for an
\* incoming transfer, -amount for a successful withdraw and for a successful
\* outgoing transfer, nothing for a failed call
Applied(h, c) ==
    (IF h.op = "deposit" /\ h.self = c THEN h.amount ELSE 0)
  + (IF h.op = "transfer" /\ h.destination = c /\ h.ret = "True" THEN h.amount ELSE 0)
  - (IF h.op = "withdraw" /\ h.self = c /\ h.ret = "True" THEN h.amount ELSE 0)
  - (IF h.op = "transfer" /\ h.self = c /\ h.ret = "True" THEN h.amount ELSE 0)

RECURSIVE SignedSum(_, _)
SignedSum(hs, c) ==
    IF hs = <<>> THEN 0
    ELSE SignedSum(SubSeq(hs, 1, Len(hs) - 1), c) + Applied(hs[Len(hs)], c)

\* C1: after any sequence of deposit, withdraw and transfer calls, the
\* balance of every category is the signed sum of the amounts applied to it:
\* +amount per deposit and incoming transfer, -amount per successful
\* withdraw and outgoing transfer, nothing for a failed call.
C1_BalanceIsSignedSum ==
    \A c \in Names : get_balance(ledger[c]) = SignedSum(hist, c)

\* a run with a successful transfer between two categories followed by a
\* failed withdraw
C1_Witness ==
    /\ Len(hist) = 3
    /\ hist[2].op = "transfer" /\ hist[2].ret = "True"
    /\ hist[2].self # hist[2].destination /\ hist[2].amount > 0
    /\ hist[3].op = "withdraw" /\ hist[3].ret = "False"

\* C2: withdraw(amount) on a category whose balance is below amount returns
\* False and leaves the ledger exactly as it was.
C2_FailedWithdrawNoChange ==
    (/\ Len(hist) > 0
     /\ Last.op = "withdraw"
     /\ get_balance(Last.pre[Last.self]) < Last.amount)
        => (Last.ret = "False" /\ ledger = Last.pre)

C2_Witness ==
    /\ Len(hist) > 0
    /\ Last.op = "withdraw"
    /\ Last.pre[Last.self] # <<>>
    /\ get_balance(Last.pre[Last.self]) > 0
    /\ get_balance(Last.pre[Last.self]) < Last.amount
    /\ Last.ret = "False"

\* C3: transfer(amount, destination) from a source whose balance is below
\* amount returns False and appends nothing to the source or the destination.
C3_FailedTransferNoChange ==
    (/\ Len(hist) > 0
     /\ Last.op = "transfer"
     /\ get_balance(Last.pre[Last.self]) < Last.amount)
        => (/\ Last.ret = "False"
            /\ ledger[Last.self] = Last.pre[Last.self]
            /\ ledger[Last.destination] = Last.pre[Last.destination])

C3_Witness ==
    /\ Len(hist) > 0
    /\ Last.op = "transfer"
    /\ Last.self # Last.destination
    /\ Last.pre[Last.self] # <<>>
    /\ Last.pre[Last.destination] # <<>>
    /\ get_balance(Last.pre[Last.self]) < Last.amount
    /\ Last.ret = "False"

\* the two entries a successful transfer is documented to append
TransferOut(h) == LedgerElement(-h.amount, "Transfer to " \o h.destination)

TransferIn(h) == LedgerElement(h.amount, "Transfer from " \o h.self)

FundedTransfer ==
    /\ Len(hist) > 0
    /\ Last.op = "transfer"
    /\ get_balance(Last.pre[Last.self]) >= Last.amount

TransferMovesAmount ==
    /\ Last.ret = "True"
    /\ get_balance(ledger[Last.self]) = get_balance(Last.pre[Last.self]) - Last.amount
    /\ get_balance(ledger[Last.destination])
           = get_balance(Last.pre[Last.destination]) + Last.amount
    /\ ledger[Last.self] = Append(Last.pre[Last.self], TransferOut(Last))
    /\ ledger[Last.destination] = Append(Last.pre[Last.destination], TransferIn(Last))

\* C4 as claimed: a funded transfer to any destination, the source itself
\* included, returns True, lowers the source's balance by amount, raises the
\* destination's by amount and appends exactly one documented entry to each.
C4_Original == FundedTransfer => TransferMovesAmount

\* C4: a funded transfer to a destination other than the source returns True,
\* lowers the source's balance by amount, raises the destination's by amount
\* and appends exactly one documented entry to each; a funded transfer to the
\* source itself returns True and appends both entries, the debit first, to
\* the one ledger, whose balance is unchanged.
C4_FundedTransfer ==
    FundedTransfer =>
        IF Last.self # Last.destination
        THEN /\ TransferMovesAmount
             /\ \A c \in Names \ {Last.self, Last.destination} : ledger[c] = Last.pre[c]
        ELSE /\ Last.ret = "True"
             /\ ledger[Last.self]
                    = Last.pre[Last.self] \o <<TransferOut(Last), TransferIn(Last)>>
             /\ get_balance(ledger[Last.self]) = get_balance(Last.pre[Last.self])
             /\ \A c \in Names \ {Last.self} : ledger[c] = Last.pre[c]

C4_Witness ==
    /\ FundedTransfer
    /\ Last.self # Last.destination
    /\ Last.amount > 0
    /\ Last.pre[Last.destination] # <<>>
    /\ Last.ret = "True"

\* C5: a withdraw or transfer never produces a negative balance, whatever the
\* sign of the amount: a debit is appended only if balance >= amount held at
\* the check, and every category the call touches that had a balance >= 0
\* before the call has a balance >= 0 after it.
C5_NoNegativeBalance ==
    (Len(hist) > 0 /\ Last.op \in {"withdraw", "transfer"}) =>
        /\ (ledger[Last.self] # Last.pre[Last.self])
               => get_balance(Last.pre[Last.self]) >= Last.amount
        /\ \A c \in {Last.self, Last.destination} :
               get_balance(Last.pre[c]) >= 0 => get_balance(ledger[c]) >= 0

DepositThenWithdraw ==
    /\ Len(hist) >= 2
    /\ Prev.op = "deposit"
    /\ Last.op = "withdraw"
    /\ Last.self = Prev.self
    /\ Last.amount = Prev.amount

Debited(h, c) ==
    IF h.op \in {"withdraw", "transfer"} /\ h.self = c /\ h.ret = "True"
    THEN h.amount ELSE 0

RECURSIVE TotalDebited(_, _)
TotalDebited(hs, c) ==
    IF hs = <<>> THEN 0
    ELSE TotalDebited(SubSeq(hs, 1, Len(hs) - 1), c) + Debited(hs[Len(hs)], c)

\* the size of the negative entry call h appends to category c, if any: a
\* successful debit of a positive amount, or a deposit or incoming transfer
\* of a negative amount
NegativeAppended(h, c) ==
    (IF h.op \in {"withdraw", "transfer"} /\ h.self = c /\ h.ret = "True" /\ h.amount > 0
     THEN h.amount ELSE 0)
  + (IF h.op = "deposit" /\ h.self = c /\ h.amount < 0 THEN -h.amount ELSE 0)
  + (IF h.op = "transfer" /\ h.destination = c /\ h.ret = "True" /\ h.amount < 0
     THEN -h.amount ELSE 0)

RECURSIVE TotalNegative(_, _)
TotalNegative(hs, c) ==
    IF hs = <<>> THEN 0
    ELSE TotalNegative(SubSeq(hs, 1, Len(hs) - 1), c) + NegativeAppended(hs[Len(hs)], c)

\* C10 as claimed: the withdraw_sum of a category is the total debited by its
\* successful withdraw and outgoing transfer calls, and no deposit entry
\* contributes, whatever the sign of the amounts passed.
C10_Original ==
    \A c \in Names : withdraw_sum(ledger[c]) = TotalDebited(hist, c)

\* C10: the withdraw_sum of a category is the total size of the negative
\* entries of its ledger, whichever call appended them: successful debits of
\* positive amounts, and deposits and incoming transfers of negative amounts;
\* a debit of a negative amount appends a positive entry and adds nothing.
\* When no amount passed is negative, it is the total debited by the
\* category's successful withdraw and outgoing transfer calls.
C10_WithdrawSum ==
    \A c \in Names :
        /\ withdraw_sum(ledger[c]) = TotalNegative(hist, c)
        /\ (\A i \in 1..Len(hist) : hist[i].amount >= 0)
               => withdraw_sum(ledger[c]) = TotalDebited(hist, c)

\* a category that received a transfer and then withdrew
C10_Witness ==
    /\ Len(hist) = 3
    /\ \A i \in 1..3 : hist[i].amount > 0
    /\ hist[2].op = "transfer" /\ hist[2].ret = "True"
    /\ hist[2].self # hist[2].destination
    /\ hist[3].op = "withdraw" /\ hist[3].ret = "True"
    /\ hist[3].self = hist[2].destination
    /\ withdraw_sum(ledger[hist[3].self]) = hist[3].amount

----------------------------------------------------------------------------
(* create_spend_chart *)

Charted == chartOut.kind # "none"

\* C7: when the total withdrawn is above zero, the percentage of every
\* category is floor(100 * withdraw_sum / overall_withdraw / 10) * 10: a
\* multiple of 10 in 0..100, not above the true percentage and less than 10
\* below it, and 0 for a category without withdrawals.
C7_PercentIsFloor ==
    (Charted /\ overall_withdraw(chartIn) > 0) =>
        /\ chartOut.kind = "returned"
        /\ \A i \in 1..Len(chartIn) :
               LET w == withdraw_sum(chartIn[i].ledger)
                   o == overall_withdraw(chartIn)
                   v == chartOut.x_axis[i].value
               IN  /\ v = (((100 * w) \div o) \div 10) * 10
                   /\ v % 10 = 0
                   /\ v \in 0..100
                   /\ v * o <= 100 * w
                   /\ 100 * w < (v + 10) * o
                   /\ (w = 0 => v = 0)

\* C8 as claimed: whenever the total withdrawn is zero, the empty list
\* included, create_spend_chart divides by zero and returns no chart.
C8_Original ==
    (Charted /\ overall_withdraw(chartIn) = 0) => chartOut.kind = "raised"

\* C8: for a non-empty list of categories whose total withdrawn is zero,
\* create_spend_chart raises ZeroDivisionError at the first percentage; for
\* the empty list no percentage is computed and a chart without columns is
\* returned; a list with a total above zero always returns a chart.
C8_ZeroTotal ==
    Charted =>
        IF overall_withdraw(chartIn) = 0 /\ Len(chartIn) > 0
        THEN chartOut = [kind |-> "raised", error |-> "ZeroDivisionError"]
        ELSE /\ chartOut.kind = "returned"
             /\ Len(chartOut.x_axis) = Len(chartIn)

\* a list of two categories, one of them holding a deposit, without any
\* withdrawal
C8_Witness ==
    /\ Charted
    /\ Len(chartIn) = 2
    /\ \E i \in 1..2 : chartIn[i].ledger # <<>>
    /\ overall_withdraw(chartIn) = 0
    /\ chartOut.kind = "raised"

----------------------------------------------------------------------------
(* Threads *)

\* C9: when the calls run one after the other, no balance ever falls below
\* zero (every amount and every starting balance being >= 0); when the steps
\* of two calls on one category interleave, both can pass the funds check
\* before either appends, both return True and the balance ends below zero.
C9_SerialNeverNegative ==
    mode = "serial" => \A c \in Names : get_balance(ledger[c]) >= 0

\* two interleaved withdraws of one category, both successful, overdrawing it
C9_Witness ==
    /\ mode = "interleaved"
    /\ \A t \in Threads : pc[t] = "done" /\ tret[t] = "True" /\ targ[t].op = "withdraw"
    /\ targ[1].self = targ[2].self
    /\ get_balance(ledger[targ[1].self]) < 0

====
